---- MODULE Spec2Model ----
(***************************************************************************)
(* A model of genie::ReinDFRPXSec (src/src/ReinSeghal/ReinDFRPXSec.cxx):   *)
(* the Rein diffractive pion production cross section, its validity gate,  *)
(* its two-dimensional grid integral and its configuration.                *)
(*                                                                         *)
(* The C++ type double is modelled as a decimal floating-point number with *)
(* a seven-digit significand, rounded after every operation, with the IEEE *)
(* special values +inf, -inf and NaN (there is no negative zero).          *)
(***************************************************************************)
EXTENDS Integers, Sequences, FiniteSets, TLC

(***************************************************************************)
(* double                                                                  *)
(*                                                                         *)
(* A finite non-zero value is [m, e] with MantMin <= |m| < MantMax and     *)
(* stands for m * 10^e; zero is [0, 0]; the exponent ExpSpecial is         *)
(* reserved for the infinities (m = 1, m = -1) and NaN (m = 0).            *)
(***************************************************************************)
MantMin == 10^6
MantMax == 10^7
ExpSpecial == 10^4

Abs(n) == IF n < 0 THEN -n ELSE n
Sgn(n) == IF n < 0 THEN -1 ELSE IF n = 0 THEN 0 ELSE 1

DZero == [m |-> 0, e |-> 0]
DNaN == [m |-> 0, e |-> ExpSpecial]
DInf == [m |-> 1, e |-> ExpSpecial]
DNegInf == [m |-> -1, e |-> ExpSpecial]

DIsNaN(a) == a.e = ExpSpecial /\ a.m = 0
DIsInf(a) == a.e = ExpSpecial /\ a.m # 0
DIsFinite(a) == a.e # ExpSpecial
DSign(a) == Sgn(a.m)
DSignedInf(s) == IF s < 0 THEN DNegInf ELSE DInf

\* n / 10 rounded to the nearest integer, halves away from zero
RoundDiv10(n) == Sgn(n) * ((Abs(n) + 5) \div 10)

\* the double m * 10^e for any integer m, rounded to seven digits
RECURSIVE DNorm(_, _)
DNorm(m, e) ==
  IF m >= MantMax \/ m <= -MantMax THEN DNorm(RoundDiv10(m), e + 1)
  ELSE IF m >= MantMin \/ m <= -MantMin THEN [m |-> m, e |-> e]
  ELSE IF m = 0 THEN DZero
  ELSE DNorm(m * 10, e - 1)

\* literals: an integer, and the decimal m * 10^e
DInt(n) == DNorm(n, 0)
DDec(m, e) == DNorm(m, e)
DOne == DInt(1)

DNeg(a) == [m |-> -a.m, e |-> a.e]

\* a < b; every comparison with NaN is false
DLt(a, b) ==
  /\ ~DIsNaN(a)
  /\ ~DIsNaN(b)
  /\ LET sa == Sgn(a.m)
         sb == Sgn(b.m)
     IN IF sa # sb THEN sa < sb
        ELSE IF sa = 0 THEN FALSE
        ELSE IF sa = 1 THEN a.e < b.e \/ (a.e = b.e /\ a.m < b.m)
        ELSE a.e > b.e \/ (a.e = b.e /\ a.m < b.m)

DEq(a, b) == ~DIsNaN(a) /\ ~DIsNaN(b) /\ a = b
DLe(a, b) == DEq(a, b) \/ DLt(a, b)
DGt(a, b) == DLt(b, a)
DGe(a, b) == DLe(b, a)

\* a + b
DAdd(a, b) ==
  IF a.e # ExpSpecial /\ b.e # ExpSpecial
    THEN IF a.m = 0 THEN b
         ELSE IF b.m = 0 THEN a
         ELSE IF a.e >= b.e
           THEN (IF a.e - b.e > 8 THEN a
                 ELSE DNorm(a.m * 10 + Sgn(b.m) * ((Abs(b.m) * 10) \div 10^(a.e - b.e)),
                            a.e - 1))
           ELSE (IF b.e - a.e > 8 THEN b
                 ELSE DNorm(b.m * 10 + Sgn(a.m) * ((Abs(a.m) * 10) \div 10^(b.e - a.e)),
                            b.e - 1))
  ELSE IF DIsNaN(a) \/ DIsNaN(b) THEN DNaN
  ELSE IF DIsInf(a) THEN (IF DIsInf(b) /\ b.m # a.m THEN DNaN ELSE a)
  ELSE b

DSub(a, b) == DAdd(a, DNeg(b))

\* |A| * |B| / 10^6 for two significands, computed without leaving 32 bits
MulHigh(ah, al, bh, bl) ==
  ah * bh * 100 + (ah * bl + al * bh + (al * bl) \div 10^4) \div 100

\* a * b
DMul(a, b) ==
  IF a.e # ExpSpecial /\ b.e # ExpSpecial
    THEN IF a.m = 0 \/ b.m = 0 THEN DZero
         ELSE DNorm(Sgn(a.m) * Sgn(b.m)
                      * MulHigh(Abs(a.m) \div 10^4, Abs(a.m) % 10^4,
                                Abs(b.m) \div 10^4, Abs(b.m) % 10^4),
                    a.e + b.e + 6)
  ELSE IF DIsNaN(a) \/ DIsNaN(b) THEN DNaN
  ELSE IF a.m = 0 \/ b.m = 0 THEN DNaN
  ELSE DSignedInf(Sgn(a.m) * Sgn(b.m))

\* the first n further digits of the quotient whose integer part is q and
\* whose remainder is r
RECURSIVE LongDiv(_, _, _, _)
LongDiv(r, b, n, q) ==
  IF n = 0 THEN q
  ELSE LongDiv((r * 10) % b, b, n - 1, q * 10 + (r * 10) \div b)

\* a / b: x/0 is an infinity of the sign of x, 0/0 is NaN
DDiv(a, b) ==
  IF a.e # ExpSpecial /\ b.e # ExpSpecial
    THEN IF b.m = 0 THEN (IF a.m = 0 THEN DNaN ELSE DSignedInf(a.m))
         ELSE IF a.m = 0 THEN DZero
         ELSE DNorm(Sgn(a.m) * Sgn(b.m)
                      * LongDiv(Abs(a.m) % Abs(b.m), Abs(b.m), 7,
                                Abs(a.m) \div Abs(b.m)),
                    a.e - b.e - 7)
  ELSE IF DIsNaN(a) \/ DIsNaN(b) THEN DNaN
  ELSE IF DIsInf(a)
    THEN (IF DIsInf(b) THEN DNaN
          ELSE DSignedInf(a.m * (IF b.m < 0 THEN -1 ELSE 1)))
  ELSE DZero

\* TMath::Power(a, 2.)
DSquare(a) == DMul(a, a)

(***************************************************************************)
(* TMath::Exp.  exp(v) = 10^t with t = v * log10(e); t = k + j/10 + g with *)
(* k an integer, j a digit and 0 <= g < 1/10; 10^(j/10) comes from a table *)
(* and 10^g = exp(g * ln 10) from its Taylor polynomial of degree 6.  As   *)
(* for an IEEE double, the result overflows to +inf above 10^308 and       *)
(* underflows to 0 below 10^-324.                                          *)
(***************************************************************************)
DLog10E == DDec(4342945, -7)
DLn10 == DDec(2302585, -6)
Pow10Tenths ==
  <<1000000, 1258925, 1584893, 1995262, 2511886,
    3162278, 3981072, 5011872, 6309573, 7943282>>

\* 1 + u + u^2/2 + ... + u^6/720, by Horner's rule
ExpTaylor(u) ==
  DAdd(DOne, DMul(u,
  DAdd(DOne, DMul(u,
  DAdd(DDec(5, -1), DMul(u,
  DAdd(DDec(1666667, -7), DMul(u,
  DAdd(DDec(4166667, -8), DMul(u,
  DAdd(DDec(8333333, -9), DMul(u, DDec(1388889, -9)))))))))))))

\* 10^(r / 10^p) for 0 <= r < 10^p: the table entry of the first digit times
\* the polynomial of the rest
DExpFrac(r, p) ==
  DMul([m |-> Pow10Tenths[(r \div 10^(p - 1)) + 1], e |-> -6],
       ExpTaylor(DMul(DNorm(r % 10^(p - 1), -p), DLn10)))

\* f * 10^k within the range of a double
DScale10(f, k) ==
  IF k > 308 THEN DInf
  ELSE IF k < -324 THEN DZero
  ELSE [m |-> f.m, e |-> f.e + k]

\* exp(v) = 10^t for finite non-zero v, t = v * log10(e)
DExp10(t, v) ==
  IF -t.e <= 3 THEN (IF t.m > 0 THEN DInf ELSE DZero)
  ELSE IF -t.e > 9 THEN ExpTaylor(v)
  ELSE DScale10(DExpFrac(t.m % 10^(-t.e), -t.e), t.m \div 10^(-t.e))

DExp(v) ==
  IF DIsNaN(v) THEN DNaN
  ELSE IF DIsInf(v) THEN (IF v.m > 0 THEN DInf ELSE DZero)
  ELSE IF v.m = 0 THEN DOne
  ELSE DExp10(DMul(v, DLog10E), v)

(***************************************************************************)
(* Constants of Conventions/Constants.h and Conventions/Controls.h, in     *)
(* natural units (GeV).                                                    *)
(***************************************************************************)
kPi3 == DDec(3100628, -5)
kGF2 == DDec(1360466, -16)
kNucleonMass == DDec(9389187, -7)
kPionMass == DDec(1395702, -7)
kPionMass2 == DSquare(kPionMass)
kMuonMass == DDec(1056584, -7)
kASmallNum == DDec(1, -6)

\* KinePhaseSpace_t: the phase space the formula is written in, and others
kPSxyfE == "kPSxyfE"
KinePhaseSpaces == {"kPSxyfE", "kPSWQ2fE", "kPSxytfE"}

\* the status bits of an Interaction
kISkipProcessChk == "kISkipProcessChk"
kISkipKinematicChk == "kISkipKinematicChk"
kIAssumeFreeNucleon == "kIAssumeFreeNucleon"
InteractionBits == {kISkipProcessChk, kISkipKinematicChk, kIAssumeFreeNucleon}

\* ScatteringType_t values of ProcessInfo
kScDiffractive == "kScDiffractive"
ScatteringTypes == {"kScDiffractive", "kScQuasiElastic"}

\* PDG codes of the nucleons
kPdgProton == 2212
kPdgNeutron == 2112

(***************************************************************************)
(* The Interaction: probe energy in the hit nucleon rest frame, kinematics *)
(* x and y, process type, status bits and target.                          *)
(***************************************************************************)
TestBit(interaction, bit) == bit \in interaction.bits
ProbeE(interaction) == interaction.E
IsDiffractive(interaction) == interaction.proc = kScDiffractive
IsProton(pdgc) == pdgc = kPdgProton
\* variants: Setx moving x by xc instead of storing it, Setx storing xc in
\* the y field, Sety storing yc in both kinematic fields
SetxInY(interaction, xc) == [interaction EXCEPT !.y = xc]
SetxRelative(interaction, xc) ==
  [interaction EXCEPT !.x = DAdd(interaction.x, xc)]
SetyAlsoSetsx(interaction, yc) == [interaction EXCEPT !.y = yc, !.x = yc]
Setx(interaction, xc) == [interaction EXCEPT !.x = xc]
Sety(interaction, yc) == [interaction EXCEPT !.y = yc]

(***************************************************************************)
(* Collaborators outside this class.                                       *)
(***************************************************************************)
\* utils::hadxs::TotalPionNucleonXSec: the total pion-nucleon cross section
\* at pion energy Epi, a pure function with non-negative values
SigmaPiN == DDec(642, -1)
TotalPionNucleonXSec(Epi) == IF DGt(Epi, DZero) THEN SigmaPiN ELSE DZero

\* utils::kinematics::Jacobian: a strictly positive factor
Jacobian(interaction, fromps, tops) ==
  IF fromps = tops THEN DOne
  ELSE IF tops = "kPSWQ2fE" THEN DDec(25, -1)
  ELSE DDec(4, -1)

(***************************************************************************)
(* ReinDFRPXSec::ValidProcess and ReinDFRPXSec::ValidKinematics            *)
(***************************************************************************)
\* variants of ValidProcess: one that lets every process through, one that
\* does not look at the skip flag
ValidProcessUnchecked(interaction) ==
  IF TestBit(interaction, kISkipProcessChk) THEN TRUE
  ELSE TRUE

ValidProcessIgnoresSkip(interaction) ==
  IF IsDiffractive(interaction) THEN TRUE
  ELSE FALSE

ValidProcess(interaction) ==
  IF TestBit(interaction, kISkipProcessChk) THEN TRUE
  ELSE IF IsDiffractive(interaction) THEN TRUE
  ELSE FALSE

ValidKinematics(interaction) ==
  IF TestBit(interaction, kISkipKinematicChk) THEN TRUE
  ELSE TRUE

(***************************************************************************)
(* ReinDFRPXSec::XSec, step by step.  XSecRun gives the returned value and *)
(* the collaborators called on the way, in order.                          *)
(***************************************************************************)
\* Q2 = 2.*x*y*kNucleonMass*E
MomentumTransfer(x, y, E) ==
  DMul(DMul(DMul(DMul(DInt(2), x), y), kNucleonMass), E)

\* Gf = kGF2 * kNucleonMass/(16*kPi3)
Gf == DDiv(DMul(kGF2, kNucleonMass), DMul(DInt(16), kPi3))

\* fp = 0.93 * kPionMass, fp2 = fp^2
fp == DMul(DDec(93, -2), kPionMass)
fp2 == DSquare(fp)

\* variants of the propagator: without the square, and with Q2 subtracted
PropagatorUnsquared(Ma, Q2) ==
  LET ma2 == DSquare(Ma)
  IN DDiv(ma2, DAdd(ma2, Q2))

PropagatorSignFlipped(Ma, Q2) ==
  LET ma2 == DSquare(Ma)
  IN DSquare(DDiv(ma2, DSub(ma2, Q2)))

\* propg = (ma2/(ma2+Q2))^2
Propagator(Ma, Q2) ==
  LET ma2 == DSquare(Ma)
  IN DSquare(DDiv(ma2, DAdd(ma2, Q2)))

\* a variant of the base value with (y-1) for (1-y)
BaseXSecYMinusOne(E, y, propg, sTot2) ==
  DMul(DMul(DMul(DMul(DMul(Gf, E), fp2), DSub(y, DOne)), propg), sTot2)

\* xsec = Gf*E*fp2*(1-y)*propg*sTot2
BaseXSec(E, y, propg, sTot2) ==
  DMul(DMul(DMul(DMul(DMul(Gf, E), fp2), DSub(DOne, y)), propg), sTot2)

\* tmin = (0.5*kPionMass2/Epi)^2 and tmax = 99.0
TMin(Epi) == DSquare(DDiv(DMul(DDec(5, -1), kPionMass2), Epi))
TMax == DInt(99)

\* variants of the t-integral: one that leaves the value alone when the
\* range has vanished, one with the two exponentials exchanged
TIntegralOneWhenVanished(b, tmin, tmax) ==
  IF DLt(tmin, tmax)
    THEN DDiv(DSub(DExp(DMul(DNeg(b), tmin)), DExp(DMul(DNeg(b), tmax))), b)
    ELSE DOne

TIntegralExchanged(b, tmin, tmax) ==
  IF DLt(tmin, tmax)
    THEN DDiv(DSub(DExp(DMul(DNeg(b), tmax)), DExp(DMul(DNeg(b), tmin))), b)
    ELSE DZero

\* the integral of exp(-b*t) over [tmin, tmax]
TIntegral(b, tmin, tmax) ==
  IF DLt(tmin, tmax)
    THEN DDiv(DSub(DExp(DMul(DNeg(b), tmin)), DExp(DMul(DNeg(b), tmax))), b)
    ELSE DZero

\* a variant that counts the nucleons of the other kind
NNuclSwapped(target) == IF IsProton(target.hitNucPdg) THEN target.N ELSE target.Z

\* the number of scattering centers in the target
NNucl(target) == IF IsProton(target.hitNucPdg) THEN target.Z ELSE target.N

\* a variant of the t-integral branch that does not look at kps
TIntegralFactorEveryPhaseSpace(xsec, kps, b, Epi) ==
  DMul(xsec, TIntegral(b, TMin(Epi), TMax))

\* lines 96-106: the canonical phase space takes the t-integral
TIntegralFactor(xsec, kps, b, Epi) ==
  IF kps = kPSxyfE THEN DMul(xsec, TIntegral(b, TMin(Epi), TMax)) ELSE xsec

\* lines 109-117: any other phase space takes the Jacobian
JacobianFactor(xsec, kps, interaction) ==
  IF kps # kPSxyfE THEN DMul(xsec, Jacobian(interaction, kPSxyfE, kps)) ELSE xsec

\* lines 120-127: the free-nucleon value, or that times the scattering centers
NuclearFactor(xsec, interaction) ==
  IF TestBit(interaction, kIAssumeFreeNucleon) THEN xsec
  ELSE DMul(xsec, DInt(NNucl(interaction.tgt)))

\* lines 64-127 for E, x, y and Epi = y*E
XSecFormula(Ma, b, E, x, y, Epi, interaction, kps) ==
  NuclearFactor(
    JacobianFactor(
      TIntegralFactor(
        BaseXSec(E, y, Propagator(Ma, MomentumTransfer(x, y, E)),
                 DSquare(TotalPionNucleonXSec(Epi))),
        kps, b, Epi),
      kps, interaction),
    interaction)

\* the collaborators an evaluation that passes the gate calls
XSecCalls(kps) ==
  <<"ValidProcess", "ValidKinematics", "Kine", "TotalPionNucleonXSec">>
  \o (IF kps # kPSxyfE THEN <<"Jacobian">> ELSE <<>>)

XSecRun(Ma, Beta, interaction, kps) ==
  IF ~ValidProcess(interaction)
    THEN [val |-> DZero, calls |-> <<"ValidProcess">>]
  ELSE IF ~ValidKinematics(interaction)
    THEN [val |-> DZero, calls |-> <<"ValidProcess", "ValidKinematics">>]
  ELSE [val |-> XSecFormula(Ma, Beta, ProbeE(interaction), interaction.x,
                            interaction.y,
                            DMul(interaction.y, ProbeE(interaction)),
                            interaction, kps),
        calls |-> XSecCalls(kps)]

XSec(Ma, Beta, interaction, kps) == XSecRun(Ma, Beta, interaction, kps).val

(***************************************************************************)
(* Configuration: the model-local registry fConfig and the global          *)
(* parameter list of AlgConfigPool.  A registry is a function from the     *)
(* keys it defines to their values.                                        *)
(***************************************************************************)
GlobalParameterList == ("DFR-Ma" :> DInt(1)) @@ ("DFR-Beta" :> DInt(7))
GetDouble(registry, key) == registry[key]
\* a variant of GetDoubleDef that never looks at the registry
GetDoubleDefIgnoresLocal(registry, key, def) == def

GetDoubleDef(registry, key, def) ==
  IF key \in DOMAIN registry THEN registry[key] ELSE def

\* fMa and fBeta as LoadConfig resolves them
LoadMa(config) == GetDoubleDef(config, "Ma", GetDouble(GlobalParameterList, "DFR-Ma"))
LoadBeta(config) ==
  GetDoubleDef(config, "beta", GetDouble(GlobalParameterList, "DFR-Beta"))

(***************************************************************************)
(* The grid of ReinDFRPXSec::Integral                                      *)
(***************************************************************************)
nx == 300
ny == 300

\* a variant of the x range without the kASmallNum margins
XRangeClosed == [min |-> DZero, max |-> DOne]

\* Range1D_t x(kASmallNum, 1.-kASmallNum)
XRange == [min |-> kASmallNum, max |-> DSub(DOne, kASmallNum)]

\* a variant of the y range whose upper end leaves the lepton mass out
YRangeNoLepton(E) ==
  [min |-> DAdd(DDiv(kPionMass, E), kASmallNum),
   max |-> DSub(DOne, kASmallNum)]

\* Range1D_t y(kPionMass/E + kASmallNum, 1.-ml/E - kASmallNum)
YRange(E) ==
  [min |-> DAdd(DDiv(kPionMass, E), kASmallNum),
   max |-> DSub(DSub(DOne, DDiv(kMuonMass, E)), kASmallNum)]

\* a variant of the emptiness test with the comparison turned round
RangeEmptyInverted(range) == DGe(range.max, range.min)

\* if(y.max <= y.min) return 0
RangeEmpty(range) == DLe(range.max, range.min)

\* a variant of the inner loop's condition that runs one point too far
InnerLoopContinuesOneMore(iy) == iy <= ny

\* for(int iy=0; iy<ny; iy++), asked of the counter after iy++
InnerLoopContinues(iy) == iy < ny

\* for(int ix=0; ix<nx; ix++)
OuterLoopContinues(ix) == ix < nx

\* dx = (x.max - x.min)/(nx-1)
GridStep(range, n) == DDiv(DSub(range.max, range.min), DInt(n - 1))

\* xc = x.min + ix*dx
GridPoint(range, i, d) == DAdd(range.min, DMul(DInt(i), d))

(***************************************************************************)
(* State                                                                   *)
(*   fConfig, fMa, fBeta  the model instance; configured tells whether     *)
(*                        Configure has run (fMa and fBeta are             *)
(*                        indeterminate before)                            *)
(*   interaction          the caller's Interaction                        *)
(*   last                 the last completed call: its name, phase space,  *)
(*                        returned value or boolean, collaborators called  *)
(*   integ                the frame of a running Integral: position, E,    *)
(*                        ranges, steps, loop counters, running sum and    *)
(*                        the number of XSec calls made so far             *)
(*   returned             the values Integral has returned so far, in      *)
(*                        order                                            *)
(*   objs, callers        concurrent callers of Integral: the Interaction  *)
(*                        objects they were given, by address, and the     *)
(*                        frame of each caller                             *)
(***************************************************************************)
VARIABLES fConfig, fMa, fBeta, configured, interaction, last, integ, returned,
          objs, callers

vars ==
  <<fConfig, fMa, fBeta, configured, interaction, last, integ, returned, objs,
    callers>>

NoCall == [op |-> "none", kps |-> "none", val |-> DZero, ok |-> FALSE, calls |-> <<>>]

IdleFrame ==
  [pc |-> "idle", E |-> DZero, x |-> [min |-> DZero, max |-> DZero],
   y |-> [min |-> DZero, max |-> DZero], dx |-> DZero, dy |-> DZero,
   ix |-> 0, iy |-> 0, xsec |-> DZero, n |-> 0]

\* the record of a completed XSec call
XSecCall(kps, r) ==
  [op |-> "XSec", kps |-> kps, val |-> r.val, ok |-> FALSE, calls |-> r.calls]

\* the inputs of the point evaluations
Energies == {DZero, DDec(2, -3), DInt(5)}
XValues == {DZero, DDec(1, -1), DDec(5, -1)}
YValues == {DZero, DDec(3, -1), DDec(7, -1), DOne, DDec(15, -1)}
Targets ==
  {[Z |-> 6, N |-> 8, hitNucPdg |-> kPdgProton],
   [Z |-> 26, N |-> 30, hitNucPdg |-> kPdgNeutron]}
Configs ==
  {<<>>, ("Ma" :> DDec(13, -1)) @@ ("beta" :> DInt(5)), ("beta" :> DInt(9))}

Interactions ==
  [E : Energies, x : XValues, y : YValues, proc : ScatteringTypes,
   bits : SUBSET InteractionBits, tgt : Targets]

\* the state after construction
Init ==
  /\ fConfig = <<>>
  /\ fMa = DNaN
  /\ fBeta = DNaN
  /\ configured = FALSE
  /\ interaction \in Interactions
  /\ last = NoCall
  /\ integ = IdleFrame
  /\ returned = <<>>
  /\ objs = <<>>
  /\ callers = <<>>

\* ReinDFRPXSec::Configure: Algorithm::Configure, then LoadConfig
Configure(config) ==
  /\ fConfig' = config
  /\ fMa' = LoadMa(config)
  /\ fBeta' = LoadBeta(config)
  /\ configured' = TRUE
  /\ last' = [NoCall EXCEPT !.op = "Configure"]
  /\ UNCHANGED <<interaction, integ, returned, objs, callers>>

\* a call of XSec(interaction, kps)
CallXSec(kps) ==
  /\ configured
  /\ last' = XSecCall(kps, XSecRun(fMa, fBeta, interaction, kps))
  /\ UNCHANGED <<fConfig, fMa, fBeta, configured, interaction, integ, returned,
                 objs, callers>>

\* a call of ValidProcess(interaction)
CallValidProcess ==
  /\ last' = [NoCall EXCEPT !.op = "ValidProcess", !.ok = ValidProcess(interaction)]
  /\ UNCHANGED <<fConfig, fMa, fBeta, configured, interaction, integ, returned,
                 objs, callers>>

\* a call of ValidKinematics(interaction)
CallValidKinematics ==
  /\ last' = [NoCall EXCEPT !.op = "ValidKinematics",
                            !.ok = ValidKinematics(interaction)]
  /\ UNCHANGED <<fConfig, fMa, fBeta, configured, interaction, integ, returned,
                 objs, callers>>

Next ==
  \/ \E config \in Configs : Configure(config)
  \/ \E kps \in KinePhaseSpaces : CallXSec(kps)
  \/ CallValidProcess
  \/ CallValidKinematics

Spec == Init /\ [][Next]_vars

(***************************************************************************)
(* ReinDFRPXSec::Integral, one grid point per step                         *)
(***************************************************************************)
\* where Integral stands: about to be called, at the head of the loops with
\* a point left, at their head with none left
AtEntry == configured /\ integ.pc = "idle"
AtPoint == integ.pc = "loop" /\ OuterLoopContinues(integ.ix)
AtReturn == integ.pc = "loop" /\ ~OuterLoopContinues(integ.ix)

\* entry: E, the ranges, the empty-range return, the grid steps
IntegralEnter ==
  /\ AtEntry
  /\ LET E == ProbeE(interaction)
         x == XRange
         y == YRange(E)
     IN IF RangeEmpty(y)
          THEN /\ integ' = [IdleFrame EXCEPT !.pc = "done", !.E = E, !.x = x, !.y = y]
               /\ last' = [NoCall EXCEPT !.op = "Integral", !.val = DZero]
               /\ returned' = Append(returned, DZero)
          ELSE /\ integ' = [IdleFrame EXCEPT !.pc = "loop", !.E = E, !.x = x, !.y = y,
                                             !.dx = GridStep(x, nx),
                                             !.dy = GridStep(y, ny)]
               /\ last' = last
               /\ returned' = returned
  /\ UNCHANGED <<fConfig, fMa, fBeta, configured, interaction, objs, callers>>

\* the body of the inner loop at (ix, iy), and the loop counters' advance
IntegralPoint ==
  /\ AtPoint
  /\ LET xc == GridPoint(integ.x, integ.ix, integ.dx)
         yc == GridPoint(integ.y, integ.iy, integ.dy)
         at == Sety(Setx(interaction, xc), yc)
         r == XSecRun(fMa, fBeta, at, kPSxyfE)
     IN /\ interaction' = at
        /\ integ' = [integ EXCEPT
             !.xsec = DAdd(@, DMul(DMul(integ.dx, integ.dy), r.val)),
             !.n = @ + 1,
             !.iy = IF InnerLoopContinues(integ.iy + 1) THEN integ.iy + 1 ELSE 0,
             !.ix = IF InnerLoopContinues(integ.iy + 1) THEN integ.ix
                    ELSE integ.ix + 1]
  /\ UNCHANGED <<fConfig, fMa, fBeta, configured, last, returned, objs, callers>>

\* the loops are over: log and return the sum
IntegralReturn ==
  /\ AtReturn
  /\ integ' = [integ EXCEPT !.pc = "done"]
  /\ last' = [NoCall EXCEPT !.op = "Integral", !.val = integ.xsec]
  /\ returned' = Append(returned, integ.xsec)
  /\ UNCHANGED <<fConfig, fMa, fBeta, configured, interaction, objs, callers>>

\* the interactions integrated: diffractive ones at no energy, below, at and
\* just above kPionMass + kMuonMass and well above it, and quasi-elastic
\* ones (which the gate rejects at every grid point) above it
DiffractiveEnergies ==
  {DZero, DDec(1, -1), DAdd(kPionMass, kMuonMass), DDec(2452290, -7), DInt(5)}
QuasiElasticEnergies == {DDec(2452295, -7), DDec(3, -1)}
IntegralTargets == {[Z |-> 6, N |-> 8, hitNucPdg |-> kPdgProton]}

IntegralInteractions ==
  {i \in [E : DiffractiveEnergies \cup QuasiElasticEnergies, x : {DDec(5, -1)},
          y : {DDec(3, -1)}, proc : ScatteringTypes, bits : {{}},
          tgt : IntegralTargets] :
     IF i.proc = kScDiffractive THEN i.E \in DiffractiveEnergies
     ELSE i.E \in QuasiElasticEnergies}

InitIntegral ==
  /\ fConfig = <<>>
  /\ fMa = LoadMa(<<>>)
  /\ fBeta = LoadBeta(<<>>)
  /\ configured = TRUE
  /\ interaction \in IntegralInteractions
  /\ last = NoCall
  /\ integ = IdleFrame
  /\ returned = <<>>
  /\ objs = <<>>
  /\ callers = <<>>

NextIntegral ==
  \/ IntegralEnter
  \/ IntegralPoint
  \/ IntegralReturn

\* Integral is sequential code: once called it runs on until it returns
SpecIntegral == InitIntegral /\ [][NextIntegral]_vars /\ WF_vars(NextIntegral)

(***************************************************************************)
(* One caller's sequence of calls on one Interaction: Integral, Integral   *)
(* again on the object the first call left behind, then point calls        *)
(***************************************************************************)
\* how many Integral calls of the caller are followed
MaxCalls == 2

\* the caller calls Integral once more, on the same Interaction
IntegralAgain ==
  /\ integ.pc = "done"
  /\ last.op = "Integral"
  /\ Len(returned) < MaxCalls
  /\ integ' = IdleFrame
  /\ UNCHANGED <<fConfig, fMa, fBeta, configured, interaction, last, returned,
                 objs, callers>>

\* the point calls the caller makes once its integrations are over
PointCall ==
  /\ integ.pc = "done"
  /\ Len(returned) = MaxCalls
  /\ \/ \E kps \in KinePhaseSpaces : CallXSec(kps)
     \/ CallValidProcess
     \/ CallValidKinematics

\* the interactions handed over: one energy above and one below
\* kPionMass + kMuonMass, holding any of four (x, y) pairs on entry
SequenceInteractions ==
  [E : {DDec(1, -1), DInt(5)}, x : {DZero, DDec(5, -1)},
   y : {DDec(3, -1), DDec(15, -1)}, proc : {kScDiffractive}, bits : {{}},
   tgt : IntegralTargets]

InitSequence ==
  /\ fConfig = <<>>
  /\ fMa = LoadMa(<<>>)
  /\ fBeta = LoadBeta(<<>>)
  /\ configured = TRUE
  /\ interaction \in SequenceInteractions
  /\ last = NoCall
  /\ integ = IdleFrame
  /\ returned = <<>>
  /\ objs = <<>>
  /\ callers = <<>>

NextSequence ==
  \/ IntegralEnter
  \/ IntegralPoint
  \/ IntegralReturn
  \/ IntegralAgain
  \/ PointCall

SpecSequence == InitSequence /\ [][NextSequence]_vars

(***************************************************************************)
(* Two threads calling Integral on one model instance at the same time,    *)
(* each on the Interaction it was given: the same object or one of its     *)
(* own.  Integral takes no lock, so the writes of lines 156-157 and the    *)
(* reads of lines 64-66 of the two calls interleave freely; a read that    *)
(* races with a write returns the value before it or the value after it.   *)
(* Each frame also records, for reference only, the coordinates its caller *)
(* last passed to Setx and Sety (wx, wy), the sum of the terms at the      *)
(* caller's own grid points (solo), and whether XSec ever worked on other  *)
(* coordinates than those (alien).                                         *)
(***************************************************************************)
CallerIds == {"a", "b"}

\* how many grid points of each call are followed
MaxPoints == 2

\* variant: every call works on the first object, whatever it was given
KinePtrOfFirst(frame) == 1
\* the Interaction a call works on: the one it was given
KinePtr(frame) == frame.obj

CallerFrame(obj) ==
  [pc |-> "idle", obj |-> obj, E |-> DZero,
   x |-> [min |-> DZero, max |-> DZero], y |-> [min |-> DZero, max |-> DZero],
   dx |-> DZero, dy |-> DZero, ix |-> 0, iy |-> 0, xsec |-> DZero, n |-> 0,
   rx |-> DZero, wx |-> DZero, wy |-> DZero, solo |-> DZero, alien |-> FALSE]

\* entry of one call: E, the ranges, the empty-range return, the grid steps
ThreadEnter(c) ==
  /\ callers[c].pc = "idle"
  /\ LET E == ProbeE(objs[KinePtr(callers[c])])
         x == XRange
         y == YRange(E)
     IN callers' = [callers EXCEPT ![c] =
          IF RangeEmpty(y)
            THEN [@ EXCEPT !.pc = "done", !.E = E, !.x = x, !.y = y]
            ELSE [@ EXCEPT !.pc = "setx", !.E = E, !.x = x, !.y = y,
                           !.dx = GridStep(x, nx), !.dy = GridStep(y, ny)]]
  /\ UNCHANGED <<fConfig, fMa, fBeta, configured, interaction, last, integ,
                 returned, objs>>

\* line 156 at (ix, iy)
ThreadSetx(c) ==
  /\ callers[c].pc = "setx"
  /\ OuterLoopContinues(callers[c].ix)
  /\ callers[c].n < MaxPoints
  /\ LET fr == callers[c]
         xc == GridPoint(fr.x, fr.ix, fr.dx)
     IN /\ objs' = [objs EXCEPT ![KinePtr(fr)] = Setx(@, xc)]
        /\ callers' = [callers EXCEPT ![c] = [@ EXCEPT !.pc = "sety", !.wx = xc]]
  /\ UNCHANGED <<fConfig, fMa, fBeta, configured, interaction, last, integ,
                 returned>>

\* line 157 at (ix, iy)
ThreadSety(c) ==
  /\ callers[c].pc = "sety"
  /\ LET fr == callers[c]
         yc == GridPoint(fr.y, fr.iy, fr.dy)
     IN /\ objs' = [objs EXCEPT ![KinePtr(fr)] = Sety(@, yc)]
        /\ callers' = [callers EXCEPT ![c] = [@ EXCEPT !.pc = "readx", !.wy = yc]]
  /\ UNCHANGED <<fConfig, fMa, fBeta, configured, interaction, last, integ,
                 returned>>

\* line 158 calls XSec, which reads x at line 65
ThreadReadx(c) ==
  /\ callers[c].pc = "readx"
  /\ callers' = [callers EXCEPT ![c] =
       [@ EXCEPT !.pc = "ready", !.rx = objs[KinePtr(callers[c])].x]]
  /\ UNCHANGED <<fConfig, fMa, fBeta, configured, interaction, last, integ,
                 returned, objs>>

\* XSec reads y at line 66 and computes; line 158 adds the term, and the
\* loop counters advance
ThreadReady(c) ==
  /\ callers[c].pc = "ready"
  /\ LET fr == callers[c]
         seen == [objs[KinePtr(fr)] EXCEPT !.x = fr.rx]
         own == [objs[KinePtr(fr)] EXCEPT !.x = fr.wx, !.y = fr.wy]
         w == DMul(fr.dx, fr.dy)
     IN callers' = [callers EXCEPT ![c] =
          [@ EXCEPT
             !.pc = "setx",
             !.xsec = DAdd(@, DMul(w, XSecRun(fMa, fBeta, seen, kPSxyfE).val)),
             !.solo = DAdd(@, DMul(w, XSecRun(fMa, fBeta, own, kPSxyfE).val)),
             !.alien = @ \/ seen.x # fr.wx \/ seen.y # fr.wy,
             !.n = @ + 1,
             !.iy = IF InnerLoopContinues(fr.iy + 1) THEN fr.iy + 1 ELSE 0,
             !.ix = IF InnerLoopContinues(fr.iy + 1) THEN fr.ix ELSE fr.ix + 1]]
  /\ UNCHANGED <<fConfig, fMa, fBeta, configured, interaction, last, integ,
                 returned, objs>>

\* the interactions handed over: below kPionMass + kMuonMass and at two
\* energies above it
ThreadInteractions ==
  [E : {DDec(1, -1), DInt(1), DInt(5)}, x : {DDec(5, -1)}, y : {DDec(3, -1)},
   proc : {kScDiffractive}, bits : {{}}, tgt : IntegralTargets]

\* one object for both callers, or one each
InitThreads ==
  /\ fConfig = <<>>
  /\ fMa = LoadMa(<<>>)
  /\ fBeta = LoadBeta(<<>>)
  /\ configured = TRUE
  /\ last = NoCall
  /\ integ = IdleFrame
  /\ returned = <<>>
  /\ \/ /\ objs \in [{1} -> ThreadInteractions]
        /\ callers = [c \in CallerIds |-> CallerFrame(1)]
     \/ /\ objs \in [{1, 2} -> ThreadInteractions]
        /\ callers = [c \in CallerIds |-> CallerFrame(IF c = "a" THEN 1 ELSE 2)]
  /\ interaction = objs[1]

NextThreads ==
  \E c \in CallerIds :
    \/ ThreadEnter(c)
    \/ ThreadSetx(c)
    \/ ThreadSety(c)
    \/ ThreadReadx(c)
    \/ ThreadReady(c)

SpecThreads == InitThreads /\ [][NextThreads]_vars

(***************************************************************************)
(* Properties                                                              *)
(***************************************************************************)
\* the gate seen from the interaction's own fields
ProcessRejected ==
  /\ kISkipProcessChk \notin interaction.bits
  /\ interaction.proc # kScDiffractive
GateAccepts == ~ProcessRejected

\* |a - b| <= 10^-5 * |b|: agreement up to the rounding of a few operations
DAbs(a) == IF DLt(a, DZero) THEN DNeg(a) ELSE a
DClose(a, b) == DLe(DAbs(DSub(a, b)), DMul(DDec(1, -5), DAbs(b)))

\* C1: whenever the process is rejected (skip flag unset and the process not
\* diffractive) XSec returns exactly 0, whatever E, x, y, phase space, target
\* and free-nucleon flag, and it returns after ValidProcess alone: before the
\* kinematics are read, the hadronic cross section is looked up or the
\* Jacobian is computed.
C1_RejectedProcessReturnsZero ==
  (last.op = "XSec" /\ ProcessRejected)
    => /\ last.val = DZero
       /\ last.calls = <<"ValidProcess">>

\* a rejected call at a point where an accepted one is not zero
C1_Witness ==
  /\ last.op = "XSec"
  /\ ProcessRejected
  /\ last.kps = "kPSWQ2fE"
  /\ interaction.E = DInt(5)
  /\ interaction.x = DDec(1, -1)
  /\ interaction.y = DDec(3, -1)
  /\ kIAssumeFreeNucleon \notin interaction.bits
  /\ last.val = DZero

\* C2 as stated: for every interaction the gate accepts XSec returns a value
\* that is >= 0 and not NaN, in every phase space.
C2_AcceptedIsNonNegative ==
  (last.op = "XSec" /\ ValidProcess(interaction) /\ ValidKinematics(interaction))
    => DGe(last.val, DZero)

\* C2, amended: for every interaction the gate accepts with E >= 0, x >= 0,
\* 0 <= y <= 1 and positive Ma and Beta, XSec returns a value that is >= 0
\* and not NaN, in every phase space.
C2_AcceptedWithYUpToOneIsNonNegative ==
  (/\ last.op = "XSec"
   /\ GateAccepts
   /\ DGe(interaction.E, DZero)
   /\ DGe(interaction.x, DZero)
   /\ DGe(interaction.y, DZero)
   /\ DLe(interaction.y, DOne)
   /\ DGt(fMa, DZero)
   /\ DGt(fBeta, DZero))
    => DGe(last.val, DZero)

\* an accepted call inside 0 < y < 1 with a positive result
C2_Witness ==
  /\ last.op = "XSec"
  /\ GateAccepts
  /\ last.kps = kPSxyfE
  /\ interaction.y = DDec(7, -1)
  /\ interaction.E = DInt(5)
  /\ DGt(last.val, DZero)

\* C3: for every E <= kPionMass + kMuonMass the y range Integral builds is
\* empty and Integral returns exactly 0.
C3_BelowThresholdIntegralIsZero ==
  (integ.pc # "idle" /\ DLe(interaction.E, DAdd(kPionMass, kMuonMass)))
    => /\ DLe(integ.y.max, integ.y.min)
       /\ integ.pc = "done"
       /\ last.op = "Integral"
       /\ last.val = DZero

\* Integral has returned for a diffractive interaction at E = mpi + mmu
C3_Witness ==
  /\ integ.pc = "done"
  /\ interaction.proc = kScDiffractive
  /\ interaction.E = DAdd(kPionMass, kMuonMass)
  /\ last.op = "Integral"
  /\ last.val = DZero

\* C4: when the y range is empty (y.max <= y.min) Integral returns 0 at
\* once: it makes no XSec call and no Setx or Sety on the interaction.
C4_EmptyRangeReturnsAtOnce ==
  [][(integ.pc = "idle" /\ integ'.pc # "idle"
        /\ DLe(integ'.y.max, integ'.y.min))
      => /\ integ'.pc = "done"
         /\ last'.op = "Integral"
         /\ last'.val = DZero
         /\ integ'.n = 0
         /\ interaction' = interaction]_vars

\* Integral has returned on an empty y range, the kinematics as they were
C4_Witness ==
  /\ integ.pc = "done"
  /\ DLe(integ.y.max, integ.y.min)
  /\ interaction.proc = kScDiffractive
  /\ interaction.E = DDec(1, -1)
  /\ integ.n = 0
  /\ interaction.x = DDec(5, -1)
  /\ interaction.y = DDec(3, -1)

\* the indices of the grid point of the latest XSec call of Integral
LastIx == IF integ.iy > 0 THEN integ.ix ELSE integ.ix - 1
LastIy == IF integ.iy > 0 THEN integ.iy - 1 ELSE ny - 1

\* C5: at every XSec call Integral makes, x and y of the interaction are
\* the coordinates of the current grid point, both strictly inside (0, 1),
\* so that Q2 = 2*x*y*M*E >= 0 and Epi = y*E > 0.
C5_GridPointsArePhysical ==
  integ.n > 0
    => /\ interaction.x = DAdd(integ.x.min, DMul(DInt(LastIx), integ.dx))
       /\ interaction.y = DAdd(integ.y.min, DMul(DInt(LastIy), integ.dy))
       /\ DGt(interaction.x, DZero) /\ DLt(interaction.x, DOne)
       /\ DGt(interaction.y, DZero) /\ DLt(interaction.y, DOne)
       /\ DGe(DMul(DMul(DMul(DMul(DInt(2), interaction.x), interaction.y),
                        kNucleonMass), interaction.E), DZero)
       /\ DGt(DMul(interaction.y, interaction.E), DZero)

\* the interaction after the call at the last point of the second row
C5_Witness ==
  /\ integ.pc = "loop"
  /\ interaction.proc = kScDiffractive
  /\ interaction.E = DInt(5)
  /\ integ.ix = 2
  /\ integ.iy = 0
  /\ integ.n = 2 * ny
  /\ DGt(interaction.x, integ.x.min)
  /\ DGe(interaction.y, DDec(97, -2))

\* the scattering centres as the claim counts them
C6_Centres ==
  IF interaction.tgt.hitNucPdg = kPdgProton THEN interaction.tgt.Z
  ELSE interaction.tgt.N

\* C6: with the free-nucleon flag unset the result is the free-nucleon
\* result of the same interaction and phase space times Z for a struck
\* proton and times N otherwise; with the flag set the result does not
\* depend on Z, N or the struck nucleon.
C6_NuclearScaling ==
  last.op = "XSec"
    => IF kIAssumeFreeNucleon \notin interaction.bits
         THEN last.val =
                DMul(XSec(fMa, fBeta,
                          [interaction EXCEPT !.bits = @ \cup {kIAssumeFreeNucleon}],
                          last.kps),
                     DInt(C6_Centres))
         ELSE \A Z \in {1, 6, 26}, N \in {0, 8, 30},
                 pdgc \in {kPdgProton, kPdgNeutron} :
                last.val =
                  XSec(fMa, fBeta,
                       [interaction EXCEPT
                          !.tgt = [Z |-> Z, N |-> N, hitNucPdg |-> pdgc]],
                       last.kps)

\* an accepted nuclear-target call on a struck neutron, not zero
C6_Witness ==
  /\ last.op = "XSec"
  /\ GateAccepts
  /\ kIAssumeFreeNucleon \notin interaction.bits
  /\ interaction.tgt.hitNucPdg = kPdgNeutron
  /\ interaction.tgt.N = 30
  /\ DGt(last.val, DZero)

\* C7: ValidProcess returns true whenever the skip-process-check flag is
\* set, otherwise true exactly when the process is diffractive, and it
\* changes neither the interaction nor the model.
C7_ValidProcessSemantics ==
  [][last'.op = "ValidProcess"
      => /\ last'.ok = (\/ kISkipProcessChk \in interaction.bits
                        \/ interaction.proc = kScDiffractive)
         /\ interaction' = interaction
         /\ <<fConfig, fMa, fBeta, configured>>' = <<fConfig, fMa, fBeta, configured>>
    ]_vars

\* ValidProcess has accepted a process that is not diffractive
C7_Witness ==
  /\ last.op = "ValidProcess"
  /\ last.ok
  /\ kISkipProcessChk \in interaction.bits
  /\ interaction.proc # kScDiffractive

\* the closed form of the claim, from Q2 = 2*x*y*M*E and Epi = y*E:
\* prefactor * E * fpi^2 * (1 - y) * propagator * sigma(Epi)^2
C8_Prefactor == DDiv(DMul(kGF2, kNucleonMass), DMul(DInt(16), kPi3))
C8_PionDecay2 == DMul(DMul(DDec(93, -2), kPionMass), DMul(DDec(93, -2), kPionMass))
C8_Q2 ==
  DMul(DMul(DInt(2), kNucleonMass), DMul(interaction.E, DMul(interaction.x, interaction.y)))
C8_Epi == DMul(interaction.E, interaction.y)
C8_Propagator ==
  DDiv(DMul(DMul(fMa, fMa), DMul(fMa, fMa)),
       DMul(DAdd(DMul(fMa, fMa), C8_Q2), DAdd(DMul(fMa, fMa), C8_Q2)))
C8_ClosedForm ==
  DMul(DMul(DMul(C8_Prefactor, C8_PionDecay2),
            DMul(interaction.E, DSub(DOne, interaction.y))),
       DMul(C8_Propagator,
            DMul(TotalPionNucleonXSec(C8_Epi), TotalPionNucleonXSec(C8_Epi))))

\* (exp(-beta*tmin) - exp(-beta*tmax))/beta, tmin = (mpi^2/(2*Epi))^2, tmax = 99
C8_TMin ==
  DMul(DDiv(DMul(kPionMass, kPionMass), DMul(DInt(2), C8_Epi)),
       DDiv(DMul(kPionMass, kPionMass), DMul(DInt(2), C8_Epi)))
C8_TFactor ==
  IF DLt(C8_TMin, DInt(99))
    THEN DDiv(DSub(DExp(DNeg(DMul(fBeta, C8_TMin))), DExp(DNeg(DMul(fBeta, DInt(99))))),
              fBeta)
    ELSE DZero

\* the reference point of the claim
C8_AtReferencePoint ==
  /\ last.op = "XSec"
  /\ GateAccepts
  /\ kIAssumeFreeNucleon \in interaction.bits
  /\ interaction.E = DInt(5)
  /\ interaction.x = DDec(1, -1)
  /\ interaction.y = DDec(3, -1)

\* C8 as stated: at E = 5, x = 0.1, y = 0.3, free nucleon, the value XSec
\* returns equals the closed form
\* prefactor * E * fpi^2 * (1 - y) * propagator * sigma(Epi)^2
\* up to rounding.
C8_EqualsClosedForm ==
  C8_AtReferencePoint => DClose(last.val, C8_ClosedForm)

\* C8, amended: at E = 5, x = 0.1, y = 0.3, free nucleon, the value XSec
\* returns equals, up to rounding, the closed form times the t-integral
\* factor in the canonical phase space, and the closed form times the
\* Jacobian in any other phase space.
C8_EqualsClosedFormTimesFactor ==
  C8_AtReferencePoint
    => DClose(last.val,
              IF last.kps = kPSxyfE THEN DMul(C8_ClosedForm, C8_TFactor)
              ELSE DMul(C8_ClosedForm, Jacobian(interaction, kPSxyfE, last.kps)))

\* the canonical evaluation at the reference point with the default Ma, Beta
C8_Witness ==
  /\ C8_AtReferencePoint
  /\ last.kps = kPSxyfE
  /\ fConfig = <<>>
  /\ DGt(last.val, DZero)
  /\ DLt(C8_TFactor, DDec(2, -1))

C10_Remaining ==
  IF integ.pc = "idle" THEN nx * ny + 2
  ELSE IF integ.pc = "loop" THEN nx * ny + 1 - integ.n
  ELSE 0

\* C10: Integral always returns: until it has, it can always take a step,
\* and every step brings it nearer to the return by one of a bounded count.
\* When the y range is not empty it makes exactly nx*ny = 300*300 XSec
\* calls, x in the outer loop and y in the inner one, whether or not the
\* gate accepts the interaction; when the y range is empty it makes none.
C10_TerminatesAfterFullGrid ==
  /\ [](/\ integ.pc # "done" => (AtEntry \/ AtPoint \/ AtReturn)
        /\ C10_Remaining >= 0
        /\ integ.pc = "loop"
           => /\ integ.n = integ.ix * ny + integ.iy
              /\ integ.iy < ny
              /\ integ.ix <= nx
        /\ integ.pc = "done"
           => integ.n = IF DLe(integ.y.max, integ.y.min) THEN 0 ELSE nx * ny)
  /\ [][C10_Remaining' < C10_Remaining]_vars

\* Integral has returned after the full grid for a rejected interaction
C10_Witness ==
  /\ integ.pc = "done"
  /\ interaction.proc # kScDiffractive
  /\ ~DLe(integ.y.max, integ.y.min)
  /\ integ.n = nx * ny
  /\ last.op = "Integral"

\* C13: after Configure, Ma is the local value of "Ma" when the local
\* configuration defines it and the global "DFR-Ma" otherwise, and Beta is
\* the local "beta", else the global "DFR-Beta"; Ma and Beta change in no
\* step other than a Configure call, which resolves them once.
C13_TwoTierConfiguration ==
  /\ [](configured
         => /\ fMa = IF "Ma" \in DOMAIN fConfig THEN fConfig["Ma"]
                     ELSE GlobalParameterList["DFR-Ma"]
            /\ fBeta = IF "beta" \in DOMAIN fConfig THEN fConfig["beta"]
                       ELSE GlobalParameterList["DFR-Beta"])
  /\ [][(fMa' # fMa \/ fBeta' # fBeta \/ fConfig' # fConfig)
          => last'.op = "Configure"]_vars

\* configured with a local beta and no local Ma, and XSec called since
C13_Witness ==
  /\ configured
  /\ DOMAIN fConfig = {"beta"}
  /\ fMa = DInt(1)
  /\ fBeta = DInt(9)
  /\ last.op = "XSec"

\* an accepted XSec call whose t range has vanished: tmin >= tmax = 99
C15_VanishedRange ==
  /\ last.op = "XSec"
  /\ GateAccepts
  /\ ~DLt(C8_TMin, DInt(99))

\* the value apart from the t-integral: the closed form times the
\* scattering centres
C15_Rest ==
  IF kIAssumeFreeNucleon \in interaction.bits THEN C8_ClosedForm
  ELSE DMul(C8_ClosedForm, DInt(C6_Centres))

\* C15 as stated: when tmin >= tmax only the t-dependent piece is 0 and
\* the value XSec returns does not collapse to 0: it is not 0 where the rest
\* of the formula is not 0.
C15_OnlyTheTPieceVanishes ==
  (C15_VanishedRange /\ C15_Rest # DZero) => last.val # DZero

\* C15, amended: when tmin >= tmax the t-integral is 0 and, being a factor
\* of the value, makes XSec return exactly 0 in the canonical phase space;
\* in any other phase space the t-integral is not applied and the value is
\* the rest of the formula times the Jacobian.
C15_VanishedRangeCollapsesTheValue ==
  C15_VanishedRange
    => IF last.kps = kPSxyfE THEN last.val = DZero
       ELSE DClose(last.val,
                   DMul(C15_Rest, Jacobian(interaction, kPSxyfE, last.kps)))

\* a canonical call with a vanished t range where the rest is not 0
C15_Witness ==
  /\ C15_VanishedRange
  /\ last.kps = kPSxyfE
  /\ interaction.E = DDec(2, -3)
  /\ interaction.y = DDec(3, -1)
  /\ DGt(C15_Rest, DZero)
  /\ last.val = DZero

\* |a - b| <= 10^-3 * |b|: the exponential amplifies the rounding of
\* Beta*tmin by up to Beta*tmax
C16_Close(a, b) == DLe(DAbs(DSub(a, b)), DMul(DDec(1, -3), DAbs(b)))

\* C16: in the canonical phase space XSec multiplies the base value by the
\* t-integral factor, (exp(-Beta*tmin) - exp(-Beta*tmax))/Beta when
\* tmin < tmax and exactly 0 otherwise, so that with tmin >= tmax XSec
\* returns exactly 0.
C16_CanonicalTIntegralFactor ==
  (last.op = "XSec" /\ GateAccepts /\ last.kps = kPSxyfE)
    => /\ C16_Close(last.val,
                    IF kIAssumeFreeNucleon \in interaction.bits
                      THEN DMul(C8_ClosedForm, C8_TFactor)
                      ELSE DMul(DMul(C8_ClosedForm, C8_TFactor), DInt(C6_Centres)))
       /\ ~DLt(C8_TMin, DInt(99)) => last.val = DZero

\* a canonical call on a nuclear target with tmin < tmax and a positive value
C16_Witness ==
  /\ last.op = "XSec"
  /\ GateAccepts
  /\ last.kps = kPSxyfE
  /\ kIAssumeFreeNucleon \notin interaction.bits
  /\ interaction.E = DInt(5)
  /\ interaction.y = DDec(7, -1)
  /\ DLt(C8_TMin, DInt(99))
  /\ DGt(C8_TFactor, DZero)
  /\ DGt(last.val, DZero)

\* the collaborators a call has called
C18_Called == {last.calls[i] : i \in DOMAIN last.calls}

\* C18: XSec applies exactly one of the two factors to the base value: the
\* t-integral if and only if the requested phase space is kPSxyfE, the
\* Jacobian from kPSxyfE to the requested space if and only if it is not.
\* A non-canonical request is never multiplied by the t-integral and the
\* Jacobian is never called for a canonical one.
C18_PhaseSpaceDispatch ==
  (last.op = "XSec" /\ GateAccepts)
    => /\ ("Jacobian" \in C18_Called) <=> (last.kps # kPSxyfE)
       /\ C16_Close(last.val,
                    IF last.kps = kPSxyfE THEN DMul(C15_Rest, C8_TFactor)
                    ELSE DMul(C15_Rest, Jacobian(interaction, kPSxyfE, last.kps)))

\* a non-canonical call whose value is the rest times the Jacobian, where
\* the t-integral would have changed it
C18_Witness ==
  /\ last.op = "XSec"
  /\ GateAccepts
  /\ last.kps = "kPSWQ2fE"
  /\ "Jacobian" \in C18_Called
  /\ interaction.E = DInt(5)
  /\ interaction.y = DDec(3, -1)
  /\ DGt(last.val, DZero)
  /\ ~C16_Close(last.val, DMul(last.val, C8_TFactor))

\* the extent of the two ranges of a running Integral
C14_XExtent == DSub(integ.x.max, integ.x.min)
C14_YExtent == DSub(integ.y.max, integ.y.min)

\* C14: Integral is a Riemann sum on a uniform nx x ny grid in which every
\* sample has the weight dx*dy and the weights tile the domain:
\* nx*dx = x.max - x.min and ny*dy = y.max - y.min, so that the weights of
\* all the samples add up to (x.max - x.min)*(y.max - y.min), the total of a
\* differential value that is 1 all over the grid.
C14_WeightsTileTheDomain ==
  /\ integ.pc = "loop"
       => /\ DClose(DMul(DInt(nx), integ.dx), C14_XExtent)
          /\ DClose(DMul(DInt(ny), integ.dy), C14_YExtent)
  /\ (integ.pc = "done" /\ integ.n > 0)
       => DClose(DMul(DInt(integ.n), DMul(integ.dx, integ.dy)),
                 DMul(C14_XExtent, C14_YExtent))


\* C19: Integral writes only the kinematic fields x and y of the
\* Interaction, and only inside the loops: the step at grid point (ix, iy)
\* stores that point's coordinates and leaves the energy, the target, the
\* process type and the flags alone; entering (empty y-range or not),
\* returning, and the point calls XSec, ValidProcess and ValidKinematics
\* leave the whole Interaction as it was.  After a run that entered the
\* loops the Interaction holds the last grid point, which is (x.max, y.max).
C19_PointStep == integ.pc = "loop" /\ integ'.n = integ.n + 1

C19_LastPoint ==
  /\ interaction.x = GridPoint(integ.x, nx - 1, integ.dx)
  /\ interaction.y = GridPoint(integ.y, ny - 1, integ.dy)
  /\ DClose(interaction.x, integ.x.max)
  /\ DClose(interaction.y, integ.y.max)

C19_IntegralWritesOnlyXAndY ==
  /\ [][IF C19_PointStep
          THEN interaction' =
                 [interaction EXCEPT
                    !.x = GridPoint(integ.x, integ.ix, integ.dx),
                    !.y = GridPoint(integ.y, integ.iy, integ.dy)]
          ELSE interaction' = interaction]_vars
  /\ []((integ.pc = "done" /\ integ.n > 0) => C19_LastPoint)

\* the first run is over, went through the whole grid and left the last
\* grid point, not the entry point, in the Interaction
C19_Witness ==
  /\ integ.pc = "done"
  /\ Len(returned) = 1
  /\ integ.n = nx * ny
  /\ C19_LastPoint
  /\ interaction.x # DDec(5, -1)
  /\ interaction.x # DZero
  /\ interaction.y \notin {DDec(3, -1), DDec(15, -1)}

\* C12: what Integral returns is fixed by the energy, the target, the
\* process type and flags, and Ma and Beta: on entry its ranges, grid steps
\* and counters are those of the energy alone, each evaluation is made on
\* the Interaction with x and y overwritten by the grid point's own
\* coordinates, whatever x and y it held before, and a second call on the
\* same Interaction, which then holds the first call's last grid point
\* instead of the caller's x and y, returns the same value.
C12_EnterStep == integ.pc = "idle" /\ integ'.pc # "idle"
C12_PointStep == integ.pc = "loop" /\ integ'.n = integ.n + 1

C12_FrameFromEnergy ==
  /\ integ'.E = interaction.E
  /\ integ'.x = XRange
  /\ integ'.y = YRange(interaction.E)
  /\ integ'.xsec = DZero
  /\ integ'.ix = 0
  /\ integ'.iy = 0
  /\ integ'.pc = "loop" => /\ integ'.dx = GridStep(XRange, nx)
                           /\ integ'.dy = GridStep(YRange(interaction.E), ny)

C12_PointFromFrame ==
  /\ interaction' =
       [E |-> integ.E,
        x |-> GridPoint(integ.x, integ.ix, integ.dx),
        y |-> GridPoint(integ.y, integ.iy, integ.dy),
        proc |-> interaction.proc, bits |-> interaction.bits,
        tgt |-> interaction.tgt]
  /\ <<integ'.E, integ'.x, integ'.y, integ'.dx, integ'.dy>> =
       <<integ.E, integ.x, integ.y, integ.dx, integ.dy>>

C12_Deterministic ==
  /\ [][C12_EnterStep => C12_FrameFromEnergy]_vars
  /\ [][C12_PointStep => C12_PointFromFrame]_vars
  /\ [][fMa' = fMa /\ fBeta' = fBeta /\ interaction'.E = interaction.E]_vars
  /\ [](\A i, j \in DOMAIN returned : returned[i] = returned[j])

\* both calls went through the whole grid and returned the same positive
\* value
C12_Witness ==
  /\ Len(returned) = MaxCalls
  /\ integ.n = nx * ny
  /\ DGt(returned[1], DZero)
  /\ returned[MaxCalls] = returned[1]

\* C11: when the two concurrent callers were given different Interactions,
\* then under every interleaving of their steps each call meets in XSec
\* exactly the coordinates it stored itself, its running sum is the sum of
\* the terms at its own grid points (what it accumulates when run alone),
\* and no step of either call changes Ma, Beta or the configuration.
C11_OwnInteractions ==
  \A c, d \in CallerIds : c # d => callers[c].obj # callers[d].obj

C11_SafeWithOwnInteractions ==
  /\ [](C11_OwnInteractions =>
         \A c \in CallerIds : /\ ~callers[c].alien
                              /\ callers[c].xsec = callers[c].solo
                              /\ callers[c].pc = "ready" =>
                                   callers[c].rx = callers[c].wx)
  /\ [][fMa' = fMa /\ fBeta' = fBeta /\ fConfig' = fConfig]_vars

\* both calls, on Interactions of different energies, are MaxPoints points
\* into their grids with positive sums
C11_Witness ==
  /\ C11_OwnInteractions
  /\ objs[1].E # objs[2].E
  /\ \A c \in CallerIds : /\ callers[c].n = MaxPoints
                           /\ DGt(callers[c].xsec, DZero)
                           /\ callers[c].xsec = callers[c].solo

\* C17: when two concurrent calls share one Interaction, every coordinate
\* XSec meets was stored by Setx or Sety of one of the two calls: the
\* caller's own grid coordinate or the one the other call stored last; when
\* it is the other's, the point evaluated is not the caller's grid point,
\* and only after such an evaluation does a running sum differ from the sum
\* of the terms at the caller's own grid points.  Such an interleaving is
\* reachable (C17_Witness).
C17_Other(c) == CHOOSE d \in CallerIds : d # c

C17_SharedInteractionRaces ==
  \A c \in CallerIds :
    /\ callers[c].pc = "ready" =>
         \/ callers[c].rx = callers[c].wx
         \/ /\ ~C11_OwnInteractions
            /\ callers[c].rx = callers[C17_Other(c)].wx
            /\ callers[C17_Other(c)].pc # "idle"
    /\ callers[c].xsec # callers[c].solo => callers[c].alien
    /\ callers[c].alien => ~C11_OwnInteractions

\* a call on the shared Interaction has evaluated XSec at a point that is
\* not its own grid point, and its sum differs from the sequential one
C17_Witness ==
  /\ ~C11_OwnInteractions
  /\ \E c \in CallerIds : /\ callers[c].alien
                           /\ callers[c].n > 0
                           /\ callers[c].xsec # callers[c].solo
                           /\ DGt(callers[c].solo, DZero)


=============================================================================
